---- MODULE Spec2Model ----
(***************************************************************************)
(* Model of app.py: a Flask storefront with an account table (User), a     *)
(* seeded menu table (MenuItem), per-browser sessions holding the          *)
(* flask-login identity and the cart, and the seven routes.                *)
(*                                                                         *)
(* Every route handler is one atomic step, except the POST branch of       *)
(* register, which is split at the point between its SELECT (line 58) and  *)
(* its INSERT/COMMIT (lines 67-68): the server handles requests            *)
(* concurrently and nothing in the handler serialises the two.             *)
(* Prices are the integer values of the floats of lines 139-147.           *)
(***************************************************************************)
EXTENDS Integers, Sequences, FiniteSets, TLC

\* ---------------------------------------------------------------- bounds
NumSessions == 2    \* browsers of SpecSessions
OneSession == 1     \* browsers of Spec
NumRequests == 2    \* register requests in flight at once in Spec
MaxQty == 2         \* cap on a cart quantity in SpecCart
MinQty == 1         \* cap on a cart quantity in SpecSessions

\* the values a form or a URL may carry
Usernames == {"alice", "bob"}
\* passwords people register with; a login may also try WrongPassword
Passwords == {1, 2}
WrongPassword == 3
\* the salts bcrypt may draw
Salts == {1, 2}
\* item ids: Burger, Fries, and two ids of no menu row
ItemIds == {0, 1, 6, 10}
Methods == {"GET", "POST"}

VARIABLES
    users,        \* the user table, in insertion order
    menu_items,   \* the menu_item table
    session,      \* per browser: the session dict (keys "_user_id", "cart")
    reg,          \* per in-flight register request: where it stands
    resp,         \* the last response sent
    plain,        \* history: the password each account was registered with
    adds,         \* history: successful add_to_cart calls since last order
    cart_owner    \* history: the identity that created the current cart

vars == <<users, menu_items, session, reg, resp, plain, adds, cart_owner>>

\* ------------------------------------------------------------- passwords
\* bcrypt digest of a password under a salt (collision-free on the inputs)
Digest(salt, password) == (password * 31 + salt * 17) % 101

\* User.set_password: a salted hash, never the plaintext
generate_password_hash(salt, password) ==
    [salt |-> salt, digest |-> Digest(salt, password)]

\* User.check_password
check_password(user, password) ==
    Digest(user.password.salt, password) = user.password.digest

\* ------------------------------------------------------------ user table
None == [id |-> 0]

\* User.query.filter_by(username=username).first()
filter_by_username(username) ==
    IF \E i \in 1..Len(users) : users[i].username = username
    THEN users[CHOOSE i \in 1..Len(users) : users[i].username = username]
    ELSE None

\* variant: the username column without its unique constraint
UniqueViolation_none(username) == FALSE

\* unique=True on User.username: the store rejects a second row
UniqueViolation(username) ==
    \E i \in 1..Len(users) : users[i].username = username

\* load_user
load_user(user_id) ==
    IF user_id \in 1..Len(users) THEN users[user_id] ELSE None

\* ------------------------------------------------------------ menu table
SeedMenu == <<
    [id |-> 1, name |-> "Burger",    price |-> 99,  image |-> "burger.jpg"],
    [id |-> 2, name |-> "Pizza",     price |-> 199, image |-> "pizza.jpg"],
    [id |-> 3, name |-> "Pasta",     price |-> 149, image |-> "pasta.jpg"],
    [id |-> 4, name |-> "Salad",     price |-> 89,  image |-> "salad.jpg"],
    [id |-> 5, name |-> "Sushi",     price |-> 189, image |-> "sushi.jpg"],
    [id |-> 6, name |-> "Fries",     price |-> 49,  image |-> "fries.jpg"],
    [id |-> 7, name |-> "Taco",      price |-> 129, image |-> "taco.jpg"],
    [id |-> 8, name |-> "Sandwich",  price |-> 89,  image |-> "sandwich.jpg"],
    [id |-> 9, name |-> "Ice Cream", price |-> 59,  image |-> "icecream.jpg"] >>

\* MenuItem.query.get: the row of that primary key, if any
MenuItemExists(item_id) ==
    \E i \in 1..Len(menu_items) : menu_items[i].id = item_id

MenuItemGet(item_id) ==
    menu_items[CHOOSE i \in 1..Len(menu_items) : menu_items[i].id = item_id]

\* --------------------------------------------------------------- session
Digit == <<"0", "1", "2", "3", "4", "5", "6", "7", "8", "9">>

\* str(item_id), the cart's key
RECURSIVE str(_)
str(n) == IF n < 10 THEN Digit[n + 1]
          ELSE str(n \div 10) \o Digit[(n % 10) + 1]

EmptyDict == [k \in {} |-> 0]

\* session.get(key, default)
SessionGet(s, key, default) ==
    IF key \in DOMAIN session[s] THEN session[s][key] ELSE default

\* the dict d with d[key] = value
DictSet(d, key, value) ==
    [k \in (DOMAIN d) \cup {key} |-> IF k = key THEN value ELSE d[k]]

\* the dict d without key (dict.pop(key, None))
DictPop(d, key) == [k \in (DOMAIN d) \ {key} |-> d[k]]

\* flask-login's current_user.is_authenticated
is_authenticated(s) == load_user(SessionGet(s, "_user_id", 0)) # None

Response(outcome, total) == [outcome |-> outcome, total |-> total]

\* login_required's refusal: redirect to login_view, the view is not run
Unauthorized ==
    /\ resp' = Response("Unauthenticated", 0)
    /\ UNCHANGED <<users, menu_items, session, reg, plain, adds, cart_owner>>

\* ------------------------------------------------------------------ Init
\* after construction: db.create_all() and the seeding of lines 133-150,
\* no account, every browser with an empty session, no request in flight
InitOver(SS, RR) ==
    /\ users = << >>
    /\ menu_items = SeedMenu
    /\ session = [s \in SS |-> EmptyDict]
    /\ reg = [w \in RR |-> [pc |-> "idle", username |-> "", password |-> 0]]
    /\ resp = Response("None", 0)
    /\ plain = << >>
    /\ adds = [s \in SS |-> [i \in ItemIds |-> 0]]
    /\ cart_owner = [s \in SS |-> 0]

\* ---------------------------------------------------------------- routes
\* GET /
menu(s) ==
    IF ~is_authenticated(s) THEN Unauthorized
    ELSE /\ resp' = Response("MenuPage", 0)
         /\ UNCHANGED <<users, menu_items, session, reg, plain, adds, cart_owner>>

\* GET /register
register_get ==
    /\ resp' = Response("RegisterForm", 0)
    /\ UNCHANGED <<users, menu_items, session, reg, plain, adds, cart_owner>>

\* variant: register without the lookup of line 58
register_check_unchecked(w, username, password) ==
    /\ reg[w].pc = "idle"
    /\ reg' = [reg EXCEPT ![w] = [pc |-> "checked",
                                  username |-> username,
                                  password |-> password]]
    /\ UNCHANGED <<resp, users, menu_items, session, plain, adds, cart_owner>>

\* variant: the lookup also sees the names of requests still in flight
register_check_reserving(w, username, password) ==
    /\ reg[w].pc = "idle"
    /\ IF \/ filter_by_username(username) # None
          \/ \E v \in DOMAIN reg : reg[v].pc = "checked" /\ reg[v].username = username
       THEN /\ resp' = Response("DuplicateUsername", 0)
            /\ UNCHANGED reg
       ELSE /\ reg' = [reg EXCEPT ![w] = [pc |-> "checked",
                                          username |-> username,
                                          password |-> password]]
            /\ UNCHANGED resp
    /\ UNCHANGED <<users, menu_items, session, plain, adds, cart_owner>>

\* POST /register, lines 54-61: read the form, look the username up
register_check(w, username, password) ==
    /\ reg[w].pc = "idle"
    /\ IF filter_by_username(username) # None
       THEN /\ resp' = Response("DuplicateUsername", 0)
            /\ UNCHANGED reg
       ELSE /\ reg' = [reg EXCEPT ![w] = [pc |-> "checked",
                                          username |-> username,
                                          password |-> password]]
            /\ UNCHANGED resp
    /\ UNCHANGED <<users, menu_items, session, plain, adds, cart_owner>>

\* POST /register, lines 64-71: hash, add, commit
register_commit(w, salt) ==
    /\ reg[w].pc = "checked"
    /\ reg' = [reg EXCEPT ![w] = [pc |-> "idle", username |-> "", password |-> 0]]
    /\ IF UniqueViolation(reg[w].username)
       THEN \* IntegrityError out of db.session.commit(), not caught
            /\ resp' = Response("IntegrityError", 0)
            /\ UNCHANGED <<users, plain>>
       ELSE /\ users' = Append(users,
                  [id |-> Len(users) + 1,
                   username |-> reg[w].username,
                   password |-> generate_password_hash(salt, reg[w].password)])
            /\ plain' = Append(plain, reg[w].password)
            /\ resp' = Response("Registered", 0)
    /\ UNCHANGED <<menu_items, session, adds, cart_owner>>

\* variant: line 83 without the password test
login_any_password(s, method, username, password) ==
    LET user == filter_by_username(username) IN
    /\ IF method = "POST"
       THEN IF user # None
            THEN /\ session' = [session EXCEPT
                                  ![s] = DictSet(session[s], "_user_id", user.id)]
                 /\ resp' = Response("LoginSuccessful", 0)
            ELSE /\ resp' = Response("InvalidCredentials", 0)
                 /\ UNCHANGED session
       ELSE /\ resp' = Response("LoginForm", 0)
            /\ UNCHANGED session
    /\ UNCHANGED <<users, menu_items, reg, plain, adds, cart_owner>>

\* GET or POST /login
login(s, method, username, password) ==
    LET user == filter_by_username(username) IN
    /\ IF method = "POST"
       THEN IF user # None /\ check_password(user, password)
            THEN /\ session' = [session EXCEPT
                                  ![s] = DictSet(session[s], "_user_id", user.id)]
                 /\ resp' = Response("LoginSuccessful", 0)
            ELSE /\ resp' = Response("InvalidCredentials", 0)
                 /\ UNCHANGED session
       ELSE /\ resp' = Response("LoginForm", 0)
            /\ UNCHANGED session
    /\ UNCHANGED <<users, menu_items, reg, plain, adds, cart_owner>>

\* variant: logout that drops the whole session (session.clear())
logout_clear_session(s) ==
    IF ~is_authenticated(s) THEN Unauthorized
    ELSE /\ session' = [session EXCEPT ![s] = EmptyDict]
         /\ resp' = Response("LoggedOut", 0)
         /\ adds' = [adds EXCEPT ![s] = [i \in ItemIds |-> 0]]
         /\ cart_owner' = [cart_owner EXCEPT ![s] = 0]
         /\ UNCHANGED <<users, menu_items, reg, plain>>

\* GET /logout
logout(s) ==
    IF ~is_authenticated(s) THEN Unauthorized
    ELSE /\ session' = [session EXCEPT ![s] = DictPop(session[s], "_user_id")]
         /\ resp' = Response("LoggedOut", 0)
         /\ UNCHANGED <<users, menu_items, reg, plain, adds, cart_owner>>

\* variant: the sum of the prices, quantities ignored
RECURSIVE total_price_unweighted(_)
total_price_unweighted(cart_items) ==
    IF DOMAIN cart_items = {} THEN 0
    ELSE LET k == CHOOSE k \in DOMAIN cart_items : TRUE
         IN cart_items[k].price + total_price_unweighted(DictPop(cart_items, k))

\* sum(item['price'] * item['quantity'] for item in cart_items.values())
RECURSIVE total_price(_)
total_price(cart_items) ==
    IF DOMAIN cart_items = {} THEN 0
    ELSE LET k == CHOOSE k \in DOMAIN cart_items : TRUE
         IN cart_items[k].price * cart_items[k].quantity
            + total_price(DictPop(cart_items, k))

\* GET /cart
cart(s) ==
    IF ~is_authenticated(s) THEN Unauthorized
    ELSE /\ resp' = Response("CartPage", total_price(SessionGet(s, "cart", EmptyDict)))
         /\ UNCHANGED <<users, menu_items, session, reg, plain, adds, cart_owner>>

\* variant: a repeated add overwrites the entry instead of incrementing it
add_to_cart_overwrite(s, item_id) ==
    IF ~is_authenticated(s) THEN Unauthorized
    ELSE IF ~MenuItemExists(item_id)
    THEN /\ resp' = Response("ItemNotFound", 0)
         /\ UNCHANGED <<users, menu_items, session, reg, plain, adds, cart_owner>>
    ELSE LET item == MenuItemGet(item_id)
             old  == SessionGet(s, "cart", EmptyDict)
             new  == DictSet(old, str(item_id), [name |-> item.name,
                                                 price |-> item.price,
                                                 quantity |-> 1])
         IN /\ session' = [session EXCEPT ![s] = DictSet(session[s], "cart", new)]
            /\ resp' = Response("ItemAdded", 0)
            /\ adds' = [adds EXCEPT ![s][item_id] = @ + 1]
            /\ cart_owner' = [cart_owner EXCEPT ![s] =
                                IF "cart" \in DOMAIN session[s] THEN @
                                ELSE session[s]["_user_id"]]
            /\ UNCHANGED <<users, menu_items, reg, plain>>

\* variant: a missing row is replaced by a default item instead of a 404
add_to_cart_default_item(s, item_id) ==
    IF ~is_authenticated(s) THEN Unauthorized
    ELSE LET item == IF MenuItemExists(item_id) THEN MenuItemGet(item_id)
                     ELSE [id |-> item_id, name |-> "", price |-> 0, image |-> ""]
             old  == SessionGet(s, "cart", EmptyDict)
             key  == str(item_id)
             new  == IF key \in DOMAIN old
                     THEN [old EXCEPT ![key].quantity = @ + 1]
                     ELSE DictSet(old, key, [name |-> item.name,
                                             price |-> item.price,
                                             quantity |-> 1])
         IN /\ session' = [session EXCEPT ![s] = DictSet(session[s], "cart", new)]
            /\ resp' = Response("ItemAdded", 0)
            /\ adds' = [adds EXCEPT ![s][item_id] = @ + 1]
            /\ cart_owner' = [cart_owner EXCEPT ![s] =
                                IF "cart" \in DOMAIN session[s] THEN @
                                ELSE session[s]["_user_id"]]
            /\ UNCHANGED <<users, menu_items, reg, plain>>

\* GET /add_to_cart/<int:item_id>
add_to_cart(s, item_id) ==
    IF ~is_authenticated(s) THEN Unauthorized
    ELSE IF ~MenuItemExists(item_id)
    THEN \* get_or_404
         /\ resp' = Response("ItemNotFound", 0)
         /\ UNCHANGED <<users, menu_items, session, reg, plain, adds, cart_owner>>
    ELSE LET item == MenuItemGet(item_id)
             old  == SessionGet(s, "cart", EmptyDict)
             key  == str(item_id)
             new  == IF key \in DOMAIN old
                     THEN [old EXCEPT ![key].quantity = @ + 1]
                     ELSE DictSet(old, key, [name |-> item.name,
                                             price |-> item.price,
                                             quantity |-> 1])
         IN /\ session' = [session EXCEPT ![s] = DictSet(session[s], "cart", new)]
            /\ resp' = Response("ItemAdded", 0)
            /\ adds' = [adds EXCEPT ![s][item_id] = @ + 1]
            /\ cart_owner' = [cart_owner EXCEPT ![s] =
                                IF "cart" \in DOMAIN session[s] THEN @
                                ELSE session[s]["_user_id"]]
            /\ UNCHANGED <<users, menu_items, reg, plain>>

\* variant: order without login_required
order_unguarded(s) ==
    /\ session' = [session EXCEPT ![s] = DictPop(session[s], "cart")]
    /\ resp' = Response("OrderPlaced", 0)
    /\ adds' = [adds EXCEPT ![s] = [i \in ItemIds |-> 0]]
    /\ cart_owner' = [cart_owner EXCEPT ![s] = 0]
    /\ UNCHANGED <<users, menu_items, reg, plain>>

\* variant: order that reads the cart (session.get) instead of popping it
order_keep_cart(s) ==
    IF ~is_authenticated(s) THEN Unauthorized
    ELSE /\ resp' = Response("OrderPlaced", 0)
         /\ UNCHANGED <<users, menu_items, session, reg, plain, adds, cart_owner>>

\* GET /order
order(s) ==
    IF ~is_authenticated(s) THEN Unauthorized
    ELSE /\ session' = [session EXCEPT ![s] = DictPop(session[s], "cart")]
         /\ resp' = Response("OrderPlaced", 0)
         /\ adds' = [adds EXCEPT ![s] = [i \in ItemIds |-> 0]]
         /\ cart_owner' = [cart_owner EXCEPT ![s] = 0]
         /\ UNCHANGED <<users, menu_items, reg, plain>>

\* the quantity of item_id in the cart of s, 0 when it has no entry
CartQty(s, item_id) ==
    LET c == SessionGet(s, "cart", EmptyDict)
    IN IF str(item_id) \in DOMAIN c THEN c[str(item_id)].quantity ELSE 0

\* the requests the environment may send: browsers SS, register requests
\* RR, registration passwords PP (a login may also try WrongPassword),
\* salts SL, item ids II, each cart quantity capped at cap
NextOver(SS, RR, PP, SL, II, cap) ==
    \/ \E s \in SS : menu(s)
    \/ register_get
    \/ \E w \in RR, u \in Usernames, p \in PP : register_check(w, u, p)
    \/ \E w \in RR, salt \in SL : register_commit(w, salt)
    \/ \E s \in SS, m \in Methods, u \in Usernames, p \in PP \cup {WrongPassword} :
          login(s, m, u, p)
    \/ \E s \in SS : logout(s)
    \/ \E s \in SS : cart(s)
    \/ \E s \in SS, i \in II : CartQty(s, i) < cap /\ add_to_cart(s, i)
    \/ \E s \in SS : order(s)

\* accounts: concurrent registrations, logins with every password; the only
\* item id requested is one of no menu row, so no cart is ever created
Init == InitOver(1..OneSession, 1..NumRequests)
Next == NextOver(1..OneSession, 1..NumRequests, Passwords, Salts, {10}, MaxQty)
Spec == Init /\ [][Next]_vars

\* the cart: one browser, one registration at a time, one password
InitCart == InitOver({1}, {1})
NextCart == NextOver({1}, {1}, {1}, Salts, ItemIds, MaxQty)
SpecCart == InitCart /\ [][NextCart]_vars

\* sessions: several browsers, one registration at a time, one password,
\* one salt, Burger and an id of no menu row
InitSessions == InitOver(1..NumSessions, {1})
NextSessions == NextOver(1..NumSessions, {1}, {1}, {1}, {1, 10}, MinQty)
SpecSessions == InitSessions /\ [][NextSessions]_vars

\* ------------------------------------------------------ shared notions
\* the cart held by a session dict (session.get('cart', {}))
CartIn(sd) == IF "cart" \in DOMAIN sd THEN sd["cart"] ELSE EmptyDict

\* the quantity of item_id in a cart, 0 when it has no entry
QtyIn(c, item_id) ==
    IF str(item_id) \in DOMAIN c THEN c[str(item_id)].quantity ELSE 0

\* the rows of the user table with that username
Accounts(table, username) ==
    {i \in 1..Len(table) : table[i].username = username}

\* the ids of the seeded menu rows (lines 138-148)
SeededIds == {SeedMenu[i].id : i \in 1..Len(SeedMenu)}

\* sum over the first n menu rows of menu price times quantity in cart c
RECURSIVE MenuTotal(_, _)
MenuTotal(c, n) ==
    IF n = 0 THEN 0
    ELSE SeedMenu[n].price * QtyIn(c, SeedMenu[n].id) + MenuTotal(c, n - 1)

\* ---------------------------------------------------------------- claims
\* C1: a register request that starts when an account with its username is
\* already committed is answered DuplicateUsername whatever its password,
\* inserts nothing and leaves exactly one account with that username.
C1_SecondRegisterRejected ==
    [][\A w \in DOMAIN reg, u \in Usernames, p \in Passwords :
         (Accounts(users, u) # {} /\ register_check(w, u, p)) =>
            /\ resp'.outcome = "DuplicateUsername"
            /\ users' = users
            /\ reg'[w].pc = "idle"
            /\ Cardinality(Accounts(users', u)) = 1]_vars

\* a registration of the one committed username was refused
C1_Witness ==
    /\ resp.outcome = "DuplicateUsername"
    /\ Len(users) = 1
    /\ \A w \in DOMAIN reg : reg[w].pc = "idle"

\* C2: a login POST establishes the session identity of U exactly when an
\* account named as submitted exists and the submitted password is the one
\* it was registered with; otherwise the answer is InvalidCredentials in
\* both failure cases and the session is left as it was.
C2_LoginIffCredentialsMatch ==
    [][\A s \in DOMAIN session, u \in Usernames, p \in Passwords \cup {WrongPassword} :
         login(s, "POST", u, p) =>
            LET match == {i \in Accounts(users, u) : plain[i] = p} IN
            IF match # {}
            THEN /\ resp'.outcome = "LoginSuccessful"
                 /\ "_user_id" \in DOMAIN session'[s]
                 /\ session'[s]["_user_id"] \in {users[i].id : i \in match}
                 /\ CartIn(session'[s]) = CartIn(session[s])
            ELSE /\ resp'.outcome = "InvalidCredentials"
                 /\ session' = session]_vars

\* a login succeeded while two accounts with different passwords exist
C2_Witness ==
    /\ resp.outcome = "LoginSuccessful"
    /\ Len(users) = 2
    /\ plain[1] # plain[2]
    /\ \E s \in DOMAIN session : is_authenticated(s)

\* C3: for a session without an authenticated user, a request to /, /logout,
\* /cart, /add_to_cart/<id> or /order is answered Unauthenticated and leaves
\* the session (cart and identity) and the tables unchanged; /register and
\* /login are served without authentication.
C3_GateBlocksUnauthenticated ==
    [][\A s \in DOMAIN session :
         ~is_authenticated(s) =>
            /\ (menu(s) \/ logout(s) \/ cart(s) \/ order(s)
                 \/ \E i \in ItemIds : add_to_cart(s, i)) =>
                    /\ resp'.outcome = "Unauthenticated"
                    /\ UNCHANGED <<session, users, menu_items>>
            /\ register_get => resp'.outcome = "RegisterForm"
            /\ \A m \in Methods, u \in Usernames, p \in Passwords \cup {WrongPassword} :
                  login(s, m, u, p) =>
                     resp'.outcome \in {"LoginForm", "LoginSuccessful",
                                        "InvalidCredentials"}]_vars

\* a logged-out session that still holds a cart was refused
C3_Witness ==
    /\ resp.outcome = "Unauthenticated"
    /\ \E s \in DOMAIN session :
          ~is_authenticated(s) /\ "cart" \in DOMAIN session[s]

\* C4: for an authenticated session and an existing item, add_to_cart makes
\* the item's quantity one more than before (1 when it had no entry) and
\* leaves every other entry as it was; so each item's quantity is the number
\* of successful add_to_cart calls for it since the session's last order,
\* and an item has an entry only if that number is at least 1.
C4_AddStep ==
    \A s \in DOMAIN session, i \in ItemIds :
       (is_authenticated(s) /\ i \in SeededIds /\ add_to_cart(s, i)) =>
          LET old == CartIn(session[s])
              new == CartIn(session'[s])
          IN /\ DOMAIN new = DOMAIN old \cup {str(i)}
             /\ QtyIn(new, i) = QtyIn(old, i) + 1
             /\ new[str(i)].price = SeedMenu[i].price
             /\ new[str(i)].name = SeedMenu[i].name
             /\ \A k \in DOMAIN old \ {str(i)} : new[k] = old[k]

C4_QuantityIsAddCount ==
    \A s \in DOMAIN session :
       /\ \A i \in ItemIds : QtyIn(CartIn(session[s]), i) = adds[s][i]
       /\ DOMAIN CartIn(session[s]) = {str(i) : i \in {j \in ItemIds : adds[s][j] >= 1}}

C4_AddToCart == [][C4_AddStep]_vars /\ []C4_QuantityIsAddCount

\* Burger was added twice and Fries once
C4_Witness ==
    \E s \in DOMAIN session :
       /\ adds[s][1] = 2 /\ QtyIn(CartIn(session[s]), 1) = 2
       /\ adds[s][6] = 1 /\ QtyIn(CartIn(session[s]), 6) = 1
       /\ resp.outcome = "ItemAdded"

\* C5: for an authenticated session, order leaves the session without cart
\* entries whatever it held (also when it held none), succeeds, and changes
\* neither the user table nor the menu table.
C5_OrderEmptiesCart ==
    [][\A s \in DOMAIN session :
         (is_authenticated(s) /\ order(s)) =>
            /\ CartIn(session'[s]) = EmptyDict
            /\ resp'.outcome = "OrderPlaced"
            /\ UNCHANGED <<users, menu_items>>]_vars

\* an order was placed and the cart is gone
C5_Witness ==
    /\ resp.outcome = "OrderPlaced"
    /\ \E s \in DOMAIN session :
          is_authenticated(s) /\ "cart" \notin DOMAIN session[s]

\* C6: for an authenticated session, the cart view reports the sum over the
\* cart's entries of menu price times quantity (0 without cart) and changes
\* nothing; Burger(99) x2 with Fries(49) x1 is reported as 247.
C6_CartTotal ==
    [][\A s \in DOMAIN session :
         (is_authenticated(s) /\ cart(s)) =>
            LET c == CartIn(session[s]) IN
            /\ resp'.outcome = "CartPage"
            /\ resp'.total = MenuTotal(c, Len(SeedMenu))
            /\ (DOMAIN c = {} => resp'.total = 0)
            /\ (DOMAIN c = {"1", "6"} /\ QtyIn(c, 1) = 2 /\ QtyIn(c, 6) = 1
                  => resp'.total = 247)
            /\ UNCHANGED <<session, users, menu_items>>]_vars

\* the cart of two Burgers and one Fries was viewed
C6_Witness ==
    /\ resp = Response("CartPage", 247)
    /\ \E s \in DOMAIN session :
          /\ QtyIn(CartIn(session[s]), 1) = 2
          /\ QtyIn(CartIn(session[s]), 6) = 1

\* C7: for an authenticated session, add_to_cart with an id of no menu row
\* is answered ItemNotFound and leaves the session's cart as it was.
C7_UnknownItem ==
    [][\A s \in DOMAIN session, i \in ItemIds :
         (is_authenticated(s) /\ i \notin SeededIds /\ add_to_cart(s, i)) =>
            /\ resp'.outcome = "ItemNotFound"
            /\ session' = session]_vars

\* an unknown id was refused while the cart held entries
C7_Witness ==
    /\ resp.outcome = "ItemNotFound"
    /\ \E s \in DOMAIN session :
          is_authenticated(s) /\ DOMAIN CartIn(session[s]) # {}

\* C8: the lookup and the insert of register are separate steps: the lookup
\* inserts nothing and passes whenever no account with the name is committed,
\* also while another request that passed it for the same name has not yet
\* committed; a request that passed the lookup is never answered
\* DuplicateUsername, its insert is either committed or rejected by the store.
C8_CheckThenInsertNotAtomic ==
    [][/\ \A w \in DOMAIN reg, u \in Usernames, p \in Passwords :
            (Accounts(users, u) = {} /\ register_check(w, u, p)) =>
               /\ reg'[w] = [pc |-> "checked", username |-> u, password |-> p]
               /\ users' = users
       /\ \A w \in DOMAIN reg, salt \in Salts :
            register_commit(w, salt) =>
               resp'.outcome = IF Accounts(users, reg[w].username) # {}
                               THEN "IntegrityError" ELSE "Registered"]_vars

\* two requests for one username both passed the lookup, nothing committed
C8_Witness ==
    \E w1, w2 \in DOMAIN reg :
       /\ w1 # w2
       /\ reg[w1].pc = "checked" /\ reg[w2].pc = "checked"
       /\ reg[w1].username = reg[w2].username
       /\ Accounts(users, reg[w1].username) = {}

\* C9: the user table never holds two accounts with one username, under any
\* interleaving of register requests, and it only grows: every step keeps
\* the rows it had, unmodified, and at most appends one.
C9_UsersUnique ==
    \A u \in Usernames : Cardinality(Accounts(users, u)) <= 1

C9_UsersOnlyGrow ==
    /\ Len(users') >= Len(users)
    /\ SubSeq(users', 1, Len(users)) = users

C9_UniqueAndGrowing == []C9_UsersUnique /\ [][C9_UsersOnlyGrow]_vars

\* the store rejected the insert of a request that had passed the lookup
C9_Witness ==
    /\ resp.outcome = "IntegrityError"
    /\ \E u \in Usernames : Cardinality(Accounts(users, u)) = 1

\* C10: the cart of a session changes only in a step that is an add_to_cart
\* or an order of that same session; so register, login, logout, menu and
\* cart view, and every request of another session, leave it unchanged, and
\* after a logout the entries are still there for whoever logs in next.
C10_CartFrame ==
    [][\A s \in DOMAIN session :
         /\ ("cart" \in DOMAIN session'[s]) # ("cart" \in DOMAIN session[s])
               \/ CartIn(session'[s]) # CartIn(session[s])
             => (order(s) \/ \E i \in ItemIds : add_to_cart(s, i))
         /\ logout(s) => CartIn(session'[s]) = CartIn(session[s])]_vars

\* a user other than the one who filled the cart views it in that session
C10_Witness ==
    \E s \in DOMAIN session :
       /\ is_authenticated(s)
       /\ cart_owner[s] # 0
       /\ cart_owner[s] # session[s]["_user_id"]
       /\ DOMAIN CartIn(session[s]) # {}
       /\ resp = Response("CartPage", 99)

====
